---- MODULE Spec2Model ----
(***************************************************************************)
(* Model of the commoncartridge package (imscc.go): a loaded IMSCC         *)
(* cartridge (manifest + zip reader) and the read operations of its        *)
(* facade.                                                                 *)
(*                                                                         *)
(* Encoding of Go values:                                                  *)
(*  - identifiers (Resource.Identifier, Item.Identifierref) are sequences  *)
(*    of characters, so that == and strings.Contains differ;               *)
(*  - type tags (Resource.Type) are sequences of tokens: literal pieces    *)
(*    and version digits, e.g. "imsdt_xmlv1p1" is <<"imsdt_xmlv1p", "1">>;   *)
(*  - paths (Href) are strings, "" is the empty path;                      *)
(*  - the zip reader is a function from the entry names it holds to the    *)
(*    content of the entry, a content being [root, text]: the name of the  *)
(*    root element of the document and an opaque payload;                  *)
(*  - an interface{} value is [type, value];                               *)
(*  - an error is a string, "nil" for the nil error; a run-time panic of a  *)
(*    call is the outcome "panic", after which the program makes no call.  *)
(***************************************************************************)
EXTENDS Integers, Sequences, FiniteSets, TLC

VARIABLES manifest, reader, op, arg, ret, err, opened, unopened, hist

\* manifest, reader: the fields of the IMSCC value; op, arg, ret, err: the last
\* call and what it returned; opened: the paths that call gave to Reader.Open;
\* unopened: the entries of the zip file Load has yet to open (<<>> once it has);
\* hist: what the caller keeps of earlier results, the manifest as loaded, at
\* most one earlier result of Find, and whether it has called another operation
\* since
vars == <<manifest, reader, op, arg, ret, err, opened, unopened, hist>>

(***************************************************************************)
(* Bounds of the model.                                                    *)
(***************************************************************************)
\* longest catalog of the many-resource cartridges
MaxRes == 2
\* most <file> entries of one resource
MaxFiles == 2
\* most items below the root organization item
MaxItems == 3

(***************************************************************************)
(* Strings as character sequences.                                         *)
(***************************************************************************)
EmptyStr == <<>>
IdA == <<"a">>
IdAB == <<"a", "b">>
IdB == <<"b">>

\* strings.Contains(s, substr): substr occurs within s
StringsContains(s, substr) ==
    \E i \in 0..(Len(s) - Len(substr)) : SubSeq(s, i + 1, i + Len(substr)) = substr

\* all sequences over S of length at most n
RECURSIVE SeqUpTo(_, _)
SeqUpTo(S, n) ==
    IF n = 0 THEN {<<>>}
    ELSE LET shorter == SeqUpTo(S, n - 1)
         IN  shorter \cup {Append(s, x) : s \in {t \in shorter : Len(t) = n - 1}, x \in S}

(***************************************************************************)
(* Type tags.                                                              *)
(***************************************************************************)
Digits == {"0", "1", "2", "3", "4", "5", "6", "7", "8", "9"}

TopicPrefix == "imsdt_xmlv1p"
WebLinkPrefix == "imswl_xmlv1p"
AssignmentPrefix == "assignment_xmlv1p"
QTIPrefix == "imsqti_xmlv1p"
LTIPrefix == "imsbasiclti_xmlv1p"

\* the case lists of the switch in Find
FindTopicTags == {<<TopicPrefix, d>> : d \in {"0", "1", "2", "3"}}
FindWebLinkTags == {<<WebLinkPrefix, d>> : d \in {"0", "1", "2", "3"}}
FindAssignmentTags == {<<AssignmentPrefix, d>> : d \in {"0", "1", "2", "3"}}
FindQTITags ==
    {<<QTIPrefix, "2", "/imscc_xmlv1p", d, "/assessment">> : d \in {"1", "2", "3"}}
FindLTITags == {<<LTIPrefix, d>> : d \in {"0", "1", "2"}}
WebContentTag == <<"webcontent">>
FindAssociatedTags ==
    {<<"associatedcontent/imscc_xmlv1p", d, "/learning-application-resource">> :
        d \in {"0", "1", "2", "3"}}

\* regexp `<prefix>\d`, unanchored (regexp.Find): the prefix followed by a digit
\* anywhere in the tag
MatchPattern(prefix, tag) ==
    \E i \in 1..(Len(tag) - 1) : tag[i] = prefix /\ tag[i + 1] \in Digits

(***************************************************************************)
(* Typed documents and xml.Unmarshal.                                      *)
(***************************************************************************)
\* root element each struct expects (its XMLName tag)
RootOf(type) ==
    CASE type = "types.Topic" -> "topic"
      [] type = "types.WebLink" -> "webLink"
      [] type = "types.Assignment" -> "assignment"
      [] type = "types.Questestinterop" -> "questestinterop"
      [] type = "types.CartridgeBasicltiLink" -> "cartridge_basiclti_link"

\* the zero value of a typed struct
ZeroDoc == [XMLName |-> "", Text |-> ""]

\* xml.Unmarshal(bytes, &v) for v of the given struct type: with the expected
\* root element v is filled and the error is nil; with another root element the
\* error is "expected element type <..> but have <..>" and v stays zero
XmlUnmarshal(bytes, type) ==
    IF bytes.root = RootOf(type)
    THEN [v |-> [XMLName |-> bytes.root, Text |-> bytes.text], err |-> "nil"]
    ELSE [v |-> ZeroDoc, err |-> "UnmarshalError"]

(***************************************************************************)
(* Manifest model.                                                         *)
(***************************************************************************)
\* types.Resource{}
ZeroResource == [Identifier |-> EmptyStr, Type |-> <<>>, Href |-> "", File |-> <<>>]
\* types.Item{}
ZeroItem == [Identifier |-> <<>>, Identifierref |-> EmptyStr, Item |-> <<>>]

\* cc.Reader.Open(path)
ReaderOpen(rd, path) ==
    IF path \in DOMAIN rd
    THEN [file |-> rd[path], err |-> "nil"]
    ELSE [file |-> [root |-> "", text |-> ""], err |-> "FileNotExist"]

(***************************************************************************)
(* Find                                                                    *)
(***************************************************************************)
\* for _, f := range r.File { path = f.Href }
RECURSIVE RangeFileHref(_, _)
RangeFileHref(files, path) ==
    IF files = <<>> THEN path
    ELSE RangeFileHref(Tail(files), Head(files).Href)

\* var path: r.Href, or the result of ranging over r.File
FindPath(r) ==
    IF r.Href # "" THEN r.Href ELSE RangeFileHref(r.File, "")

\* the switch r.Type of Find, once the file is read
FindSwitch(r, bytes) ==
    LET typed(type) == [ret |-> [type |-> type, value |-> XmlUnmarshal(bytes, type).v],
                        err |-> "nil"]
        raw == [ret |-> [type |-> "types.Resource", value |-> r], err |-> "nil"]
    IN  CASE r.Type \in FindTopicTags -> typed("types.Topic")
          [] r.Type = WebContentTag -> raw
          [] r.Type \in FindWebLinkTags -> typed("types.WebLink")
          [] r.Type \in FindAssignmentTags -> typed("types.Assignment")
          [] r.Type \in FindQTITags -> typed("types.Questestinterop")
          [] r.Type \in FindLTITags -> typed("types.CartridgeBasicltiLink")
          [] r.Type \in FindAssociatedTags -> raw
          [] OTHER -> [ret |-> [type |-> "types.Resource", value |-> r],
                       err |-> "NoMatchingType"]

\* a resolution without the `if path == ""` early return
FindResolveOpeningEmptyPath(r, rd) ==
    LET path == FindPath(r)
        o == ReaderOpen(rd, path)
    IN  IF o.err # "nil"
        THEN [ret |-> [type |-> "types.Resource", value |-> r], err |-> o.err,
              opened |-> <<path>>]
        ELSE [ret |-> FindSwitch(r, o.file).ret, err |-> FindSwitch(r, o.file).err,
              opened |-> <<path>>]

\* the body of the `if r.Identifier == id` branch
FindResolve(r, rd) ==
    LET path == FindPath(r)
        o == ReaderOpen(rd, path)
    IN  IF path = ""
        THEN [ret |-> [type |-> "types.Resource", value |-> r], err |-> "nil",
              opened |-> <<>>]
        ELSE IF o.err # "nil"
        THEN [ret |-> [type |-> "types.Resource", value |-> r], err |-> o.err,
              opened |-> <<path>>]
        ELSE [ret |-> FindSwitch(r, o.file).ret, err |-> FindSwitch(r, o.file).err,
              opened |-> <<path>>]

\* a lookup by containment instead of equality
FindMatchesByContainment(r, id) == StringsContains(r.Identifier, id)

\* r.Identifier == id
FindMatches(r, id) == r.Identifier = id

\* func (cc IMSCC) Find(id string) (interface{}, error)
Find(m, rd, id) ==
    LET hits == {i \in 1..Len(m.Resource) : FindMatches(m.Resource[i], id)}
    IN  IF hits = {}
        THEN [ret |-> [type |-> "types.Resource", value |-> ZeroResource],
              err |-> "ResourceNotFound", opened |-> <<>>]
        ELSE FindResolve(m.Resource[CHOOSE i \in hits : \A j \in hits : i <= j], rd)

(***************************************************************************)
(* Items / traverseItems                                                   *)
(***************************************************************************)
\* the containment test with its operands exchanged
TraverseMatchesExchanged(r, current) == StringsContains(current.Identifierref, r.Identifier)

\* strings.Contains(r.Identifier, current.Identifierref)
TraverseMatches(r, current) == StringsContains(r.Identifier, current.Identifierref)

\* the resources traverseItems appends to f.Resources
TraverseResources(m, current) ==
    IF current.Identifierref # EmptyStr
    THEN SelectSeq(m.Resource, LAMBDA r : TraverseMatches(r, current))
    ELSE <<>>

\* func (cc IMSCC) traverseItems(current types.Item) (FullItem, error); the
\* error is nil on every path
RECURSIVE traverseItems(_, _)
traverseItems(m, current) ==
    [Resources |-> TraverseResources(m, current),
     Item |-> current,
     Children |-> [k \in 1..Len(current.Item) |-> traverseItems(m, current.Item[k])]]

\* a traversal that starts at the root item itself
ItemsRangeFromRoot(m) == <<m.Item>>

\* the items Items ranges over
ItemsRange(m) == m.Item.Item

\* func (cc IMSCC) Items() ([]FullItem, error)
Items(m) ==
    [ret |-> [k \in 1..Len(ItemsRange(m)) |-> traverseItems(m, ItemsRange(m)[k])],
     err |-> "nil", opened |-> <<>>]

(***************************************************************************)
(* FindItem / findItem                                                     *)
(***************************************************************************)
\* func findItem(items []types.Item, id string) (types.Item, error); the error
\* is nil on every path. findItemLoop is the loop with the local `item`.
RECURSIVE findItem(_, _)
RECURSIVE findItemLoop(_, _, _)
findItemLoop(items, id, item) ==
    IF items = <<>> THEN item
    ELSE IF Head(items).Identifierref = id THEN Head(items)
    ELSE findItemLoop(Tail(items), id,
                      IF Len(Head(items).Item) > 0
                      THEN findItem(Head(items).Item, id)
                      ELSE item)

findItem(items, id) == findItemLoop(items, id, ZeroItem)

\* the loop of FindItem over the children of the root item, `item` being the
\* local assigned in the previous iteration
RECURSIVE FindItemLoop(_, _, _)
FindItemLoop(tops, id, item) ==
    IF tops = <<>> THEN item
    ELSE LET found == findItem(Head(tops).Item, id)
         IN  IF found.Identifierref = id THEN found
             ELSE FindItemLoop(Tail(tops), id, found)

\* func (cc *IMSCC) FindItem(id string) (types.Item, error)
FindItem(m, id) ==
    [ret |-> FindItemLoop(m.Item.Item, id, ZeroItem), err |-> "nil", opened |-> <<>>]

(***************************************************************************)
(* Resources                                                               *)
(***************************************************************************)
\* the loop of Resources: rest is what is left of the catalog, acc the slice
\* `resources`, log the paths opened so far
RECURSIVE ResourcesLoop(_, _, _, _, _)
ResourcesLoop(m, rd, rest, acc, log) ==
    IF rest = <<>> THEN [ret |-> acc, err |-> "nil", opened |-> log]
    ELSE LET found == Find(m, rd, Head(rest).Identifier)
             item == FindItem(m, Head(rest).Identifier)
         IN  IF found.err # "nil"
             THEN [ret |-> acc, err |-> found.err, opened |-> log \o found.opened]
             ELSE ResourcesLoop(m, rd, Tail(rest),
                                Append(acc, [Resource |-> found.ret, Item |-> item.ret]),
                                log \o found.opened)

\* a listing that skips a resource Find fails on, and reports no error
RECURSIVE ResourcesSkippingLoop(_, _, _, _, _)
ResourcesSkippingLoop(m, rd, rest, acc, log) ==
    IF rest = <<>> THEN [ret |-> acc, err |-> "nil", opened |-> log]
    ELSE LET found == Find(m, rd, Head(rest).Identifier)
             item == FindItem(m, Head(rest).Identifier)
         IN  ResourcesSkippingLoop(m, rd, Tail(rest),
                                   IF found.err # "nil" THEN acc
                                   ELSE Append(acc, [Resource |-> found.ret,
                                                     Item |-> item.ret]),
                                   log \o found.opened)

ResourcesSkipping(m, rd) == ResourcesSkippingLoop(m, rd, m.Resource, <<>>, <<>>)

\* func (cc IMSCC) Resources() ([]FullResource, error)
Resources(m, rd) == ResourcesLoop(m, rd, m.Resource, <<>>, <<>>)

(***************************************************************************)
(* Per-family listers                                                      *)
(***************************************************************************)
\* func (cc IMSCC) findResourcesByType(pattern string) ([]string, error), the
\* pattern being `<prefix>\d`; the patterns of the listers all compile
RECURSIVE findResourcesByType(_, _)
findResourcesByType(rs, prefix) ==
    IF rs = <<>> THEN <<>>
    ELSE (IF MatchPattern(prefix, Head(rs).Type)
          THEN [k \in 1..Len(Head(rs).File) |-> Head(rs).File[k].Href]
          ELSE <<>>) \o findResourcesByType(Tail(rs), prefix)

\* the loop `for _, p := range paths` of a lister: open, read, unmarshal into
\* the struct type, append; checked says whether the lister tests XMLName.Local
RECURSIVE ListerLoop(_, _, _, _, _, _)
ListerLoop(rd, paths, type, checked, acc, log) ==
    IF paths = <<>> THEN [ret |-> acc, err |-> "nil", opened |-> log]
    ELSE LET o == ReaderOpen(rd, Head(paths))
             v == XmlUnmarshal(o.file, type).v
         IN  IF o.err # "nil"
             THEN [ret |-> acc, err |-> o.err, opened |-> Append(log, Head(paths))]
             ELSE ListerLoop(rd, Tail(paths), type, checked,
                             IF checked => v.XMLName = RootOf(type)
                             THEN Append(acc, v) ELSE acc,
                             Append(log, Head(paths)))

\* func (cc IMSCC) Assignments() ([]types.Assignment, error)
Assignments(m, rd) ==
    ListerLoop(rd, findResourcesByType(m.Resource, AssignmentPrefix),
               "types.Assignment", TRUE, <<>>, <<>>)

\* func (cc IMSCC) LTIs() ([]types.CartridgeBasicltiLink, error)
LTIs(m, rd) ==
    ListerLoop(rd, findResourcesByType(m.Resource, LTIPrefix),
               "types.CartridgeBasicltiLink", FALSE, <<>>, <<>>)

\* func (cc IMSCC) QTIs() ([]types.Questestinterop, error)
QTIs(m, rd) ==
    ListerLoop(rd, findResourcesByType(m.Resource, QTIPrefix),
               "types.Questestinterop", TRUE, <<>>, <<>>)

\* func (cc IMSCC) Topics() ([]types.Topic, error)
Topics(m, rd) ==
    ListerLoop(rd, findResourcesByType(m.Resource, TopicPrefix),
               "types.Topic", FALSE, <<>>, <<>>)

\* func (cc IMSCC) Weblinks() ([]types.WebLink, error)
Weblinks(m, rd) ==
    ListerLoop(rd, findResourcesByType(m.Resource, WebLinkPrefix),
               "types.WebLink", FALSE, <<>>, <<>>)

(***************************************************************************)
(* FindFile                                                                *)
(***************************************************************************)
\* a nil fs.File
NilFile == [type |-> "nil", value |-> <<>>]

\* r.File[0].Href followed by cc.Reader.Open: indexing an empty slice panics
FindFileOpen(r, rd) ==
    IF Len(r.File) = 0
    THEN [ret |-> NilFile, err |-> "panic", opened |-> <<>>]
    ELSE LET o == ReaderOpen(rd, r.File[1].Href)
         IN  IF o.err # "nil"
             THEN [ret |-> NilFile, err |-> o.err, opened |-> <<r.File[1].Href>>]
             ELSE [ret |-> [type |-> "fs.File", value |-> o.file], err |-> "nil",
                   opened |-> <<r.File[1].Href>>]

\* func (cc IMSCC) FindFile(id string) (fs.File, error)
FindFile(m, rd, id) ==
    LET hits == {i \in 1..Len(m.Resource) : m.Resource[i].Identifier = id}
    IN  IF hits = {}
        THEN [ret |-> NilFile, err |-> "FileForIdNotFound", opened |-> <<>>]
        ELSE FindFileOpen(m.Resource[CHOOSE i \in hits : \A j \in hits : i <= j], rd)

(***************************************************************************)
(* Manifest, Title, Metadata, MarshalJSON                                  *)
(***************************************************************************)
\* json.Marshal(v): the encoding of v, with no error for these structs
JsonMarshal(v) == [json |-> v]

\* func (cc IMSCC) Manifest() (types.Manifest, error)
Manifest(m) == [ret |-> m, err |-> "nil", opened |-> <<>>]

\* func (cc IMSCC) Title() string
Title(m) == [ret |-> m.Title, err |-> "nil", opened |-> <<>>]

\* func (cc IMSCC) Metadata() (string, error); of the metadata fields the
\* model keeps the title
Metadata(m) == [ret |-> JsonMarshal([Title |-> m.Title]), err |-> "nil", opened |-> <<>>]

\* func (cc IMSCC) MarshalJSON() ([]byte, error)
MarshalJSON(m) == [ret |-> JsonMarshal(m), err |-> "nil", opened |-> <<>>]

(***************************************************************************)
(* Cartridges the model starts from.                                       *)
(***************************************************************************)
DocPath == "doc.xml"
HtmlPath == "meta.html"
GonePath == "gone.xml"

\* entry names a manifest may mention; GonePath is in no archive
Paths == {DocPath, HtmlPath, GonePath}

FamilyRoots ==
    {"topic", "webLink", "assignment", "questestinterop", "cartridge_basiclti_link"}

\* an archive whose DocPath entry has the given root element, next to an HTML
\* companion file
ArchiveWith(root) ==
    (DocPath :> [root |-> root, text |-> "payload"])
    @@ (HtmlPath :> [root |-> "html", text |-> "page"])

UnknownTag == <<"unknown">>

\* one tag per case of Find's switch, an unrecognised tag, and tags that only
\* the listers' patterns recognise
ModelTypes ==
    {<<TopicPrefix, "1">>, <<WebLinkPrefix, "1">>, <<AssignmentPrefix, "1">>,
     <<QTIPrefix, "2", "/imscc_xmlv1p", "1", "/assessment">>, <<LTIPrefix, "1">>,
     WebContentTag,
     <<"associatedcontent/imscc_xmlv1p", "1", "/learning-application-resource">>,
     UnknownTag, <<TopicPrefix, "9">>, <<QTIPrefix, "2">>}

FileSeqs(paths, n) ==
    {[k \in 1..Len(s) |-> [Href |-> s[k]]] : s \in SeqUpTo(paths, n)}

ResourcePool(ids, types, hrefs, files) ==
    [Identifier : ids, Type : types, Href : hrefs, File : files]

\* item trees: a forest of exactly n nodes with references drawn from refs
RECURSIVE ForestsOf(_, _)
ForestsOf(n, refs) ==
    IF n = 0 THEN {<<>>}
    ELSE UNION {{<<[ref |-> r, kids |-> f1]>> \o f2 :
                    r \in refs, f1 \in ForestsOf(k - 1, refs), f2 \in ForestsOf(n - k, refs)} :
                k \in 1..n}

\* the <item> elements of a forest, identified by their position
RECURSIVE LabelItems(_, _)
LabelItems(forest, at) ==
    [i \in 1..Len(forest) |->
        [Identifier |-> Append(at, i),
         Identifierref |-> forest[i].ref,
         Item |-> LabelItems(forest[i].kids, Append(at, i))]]

\* the root organization item over a forest
RootItem(forest) ==
    [Identifier |-> <<0>>, Identifierref |-> EmptyStr, Item |-> LabelItems(forest, <<>>)]

\* the title of the test cartridge
FixtureTitle == "Loaded Course"

\* a folder item holding one item that refers to IdA
DefaultForest == <<[ref |-> EmptyStr, kids |-> <<[ref |-> IdA, kids |-> <<>>]>>]>>

\* one resource, every combination of type, href and files, in archives of
\* each root element
InitOneResource ==
    \E r \in ResourcePool({IdA}, ModelTypes, {"", DocPath}, FileSeqs(Paths, MaxFiles)),
       root \in FamilyRoots :
        /\ manifest = [Title |-> FixtureTitle, Item |-> RootItem(DefaultForest),
                       Resource |-> <<r>>]
        /\ reader = ArchiveWith(root)

\* catalogs of up to MaxRes resources, identifiers equal or contained in one
\* another, with no file, a present file or a missing file
InitCatalog ==
    \E rs \in SeqUpTo(ResourcePool({IdA, IdAB}, {<<WebLinkPrefix, "1">>, WebContentTag, UnknownTag},
                                   {""}, FileSeqs({DocPath, GonePath}, 1)), MaxRes) :
        /\ manifest = [Title |-> FixtureTitle, Item |-> RootItem(DefaultForest),
                       Resource |-> rs]
        /\ reader = ArchiveWith("webLink")

\* file-less catalogs under every item tree of up to MaxItems items
InitTree ==
    \E n \in 0..MaxItems :
      \E f \in ForestsOf(n, {EmptyStr, IdA, IdAB}),
         ids \in {<<>>, <<IdA>>, <<IdAB>>, <<IdA, IdAB>>, <<IdAB, IdA>>} :
        /\ manifest = [Title |-> FixtureTitle, Item |-> RootItem(f),
                       Resource |-> [k \in 1..Len(ids) |->
                                       [Identifier |-> ids[k], Type |-> WebContentTag,
                                        Href |-> "", File |-> <<>>]]]
        /\ reader = ArchiveWith("webLink")

\* the state right after a successful Load of the cartridge
JustLoaded ==
    /\ op = "Load"
    /\ arg = EmptyStr
    /\ ret = <<>>
    /\ err = "nil"
    /\ opened = <<>>
    /\ unopened = <<>>
    /\ hist = [manifest |-> manifest, find |-> <<>>, between |-> FALSE]

Init ==
    /\ InitOneResource \/ InitCatalog \/ InitTree
    /\ JustLoaded

(***************************************************************************)
(* Actions: one call of a facade operation.                                *)
(***************************************************************************)
\* identifiers the caller asks for
CallIds == {IdA, IdAB, IdB}

\* a cartridge has been loaded and the program has not panicked
Loaded ==
    /\ op # "Unloaded"
    /\ ~(op = "Load" /\ err # "nil")
    /\ err # "panic"

\* the caller's record after a call: another operation than Find came after
\* the result it keeps
Noted(name) ==
    IF hist.find # <<>> /\ name # "Find"
    THEN [hist EXCEPT !.between = TRUE]
    ELSE hist

\* a call of Find that takes the resource it resolved out of the catalog
ReturnsTakingResource(name, id, out) ==
    /\ Loaded
    /\ op' = name
    /\ arg' = id
    /\ ret' = out.ret
    /\ err' = out.err
    /\ opened' = out.opened
    /\ hist' = Noted(name)
    /\ manifest' = IF name = "Find" /\ out.err = "nil"
                   THEN [manifest EXCEPT
                           !.Resource = SelectSeq(@, LAMBDA r : r.Identifier # id)]
                   ELSE manifest
    /\ UNCHANGED <<reader, unopened>>

\* a call of an operation of the cartridge: every method has a value receiver
\* or only reads cc, so the cartridge is as before
Returns(name, id, out) ==
    /\ Loaded
    /\ op' = name
    /\ arg' = id
    /\ ret' = out.ret
    /\ err' = out.err
    /\ opened' = out.opened
    /\ hist' = Noted(name)
    /\ UNCHANGED <<manifest, reader, unopened>>

CallFind == \E id \in CallIds : Returns("Find", id, Find(manifest, reader, id))
CallFindItem == \E id \in CallIds : Returns("FindItem", id, FindItem(manifest, id))
CallItems == Returns("Items", EmptyStr, Items(manifest))
CallResources == Returns("Resources", EmptyStr, Resources(manifest, reader))
CallAssignments == Returns("Assignments", EmptyStr, Assignments(manifest, reader))
CallLTIs == Returns("LTIs", EmptyStr, LTIs(manifest, reader))
CallQTIs == Returns("QTIs", EmptyStr, QTIs(manifest, reader))
CallTopics == Returns("Topics", EmptyStr, Topics(manifest, reader))
CallWeblinks == Returns("Weblinks", EmptyStr, Weblinks(manifest, reader))
CallFindFile == \E id \in CallIds : Returns("FindFile", id, FindFile(manifest, reader, id))
CallTitle == Returns("Title", EmptyStr, Title(manifest))
CallMetadata == Returns("Metadata", EmptyStr, Metadata(manifest))
CallManifest == Returns("Manifest", EmptyStr, Manifest(manifest))
CallMarshalJSON == Returns("MarshalJSON", EmptyStr, MarshalJSON(manifest))

Next ==
    \/ CallFind
    \/ CallFindItem
    \/ CallItems
    \/ CallResources
    \/ CallAssignments
    \/ CallLTIs
    \/ CallQTIs
    \/ CallTopics
    \/ CallWeblinks
    \/ CallFindFile
    \/ CallTitle
    \/ CallMetadata
    \/ CallManifest
    \/ CallMarshalJSON

Spec == Init /\ [][Next]_vars

(***************************************************************************)
(* Load: from a zip file to a cartridge.                                   *)
(***************************************************************************)
MaxEntries == 2

\* types.Manifest{}
ZeroManifest == [Title |-> "", Item |-> ZeroItem, Resource |-> <<>>]

\* the manifest the text of a well-formed manifest file of the model describes
CourseManifest ==
    [Title |-> FixtureTitle, Item |-> RootItem(DefaultForest),
     Resource |-> <<[Identifier |-> IdA, Type |-> <<WebLinkPrefix, "1">>,
                     Href |-> "", File |-> <<[Href |-> DocPath]>>]>>]

\* xml.Unmarshal(bytesArray, &manifest): a manifest document fills the struct;
\* anything else is an error and leaves it zero
XmlUnmarshalManifest(bytes) ==
    IF bytes.root = "manifest"
    THEN [v |-> CourseManifest, err |-> "nil"]
    ELSE [v |-> ZeroManifest, err |-> "UnmarshalError"]

ManifestName == <<"imsmanifest.xml">>

\* the name of a zip entry, split at the directory separator
NameTokens(name) ==
    CASE name = "imsmanifest.xml" -> <<"imsmanifest.xml">>
      [] name = "course/imsmanifest.xml" -> <<"course/", "imsmanifest.xml">>
      [] name = "manifest.xml" -> <<"manifest.xml">>
      [] name = DocPath -> <<"doc.xml">>

\* for _, f := range cc.Reader.File { if strings.Contains(...) { path = f.Name; break } }
ManifestPath(files) ==
    LET hits == {i \in 1..Len(files) : StringsContains(NameTokens(files[i].Name), ManifestName)}
    IN  IF hits = {} THEN ""
        ELSE files[CHOOSE i \in hits : \A j \in hits : i <= j].Name

\* func (cc IMSCC) parseManifest() (types.Manifest, error): the error of
\* xml.Unmarshal is dropped
parseManifest(files, rd) ==
    LET path == ManifestPath(files)
        o == ReaderOpen(rd, path)
    IN  IF o.err # "nil"
        THEN [manifest |-> ZeroManifest, err |-> o.err, opened |-> <<path>>]
        ELSE [manifest |-> XmlUnmarshalManifest(o.file).v, err |-> "nil",
              opened |-> <<path>>]

\* r.Reader of zip.OpenReader: the entries by name
ZipReader(files) ==
    [n \in {files[i].Name : i \in 1..Len(files)} |->
        LET i == CHOOSE i \in 1..Len(files) : files[i].Name = n
        IN  [root |-> files[i].root, text |-> files[i].text]]

\* func Load(path string) (IMSCC, error); no zip file is at the empty path
Load(path, files) ==
    IF path = EmptyStr
    THEN [reader |-> <<>>, manifest |-> ZeroManifest, err |-> "OpenReaderError",
          opened |-> <<>>]
    ELSE LET p == parseManifest(files, ZipReader(files))
         IN  [reader |-> ZipReader(files), manifest |-> p.manifest, err |-> p.err,
              opened |-> p.opened]

\* the path of the zip file of the model
CartridgePath == <<"c", "c">>

EntryNames == {"imsmanifest.xml", "course/imsmanifest.xml", "manifest.xml", DocPath}

\* what an entry may hold: a manifest document, a web link document, bytes
\* that are not XML
EntryBodies ==
    {[root |-> "manifest", text |-> "course"], [root |-> "webLink", text |-> "payload"],
     [root |-> "", text |-> "not xml"]}

\* zip files of up to MaxEntries entries with distinct names
ZipFiles ==
    {fs \in SeqUpTo({[Name |-> n, root |-> b.root, text |-> b.text] :
                        n \in EntryNames, b \in EntryBodies}, MaxEntries) :
        \A i, j \in 1..Len(fs) : fs[i].Name = fs[j].Name => i = j}

InitLoad ==
    /\ manifest = ZeroManifest
    /\ reader = <<>>
    /\ op = "Unloaded"
    /\ arg = EmptyStr
    /\ ret = <<>>
    /\ err = "nil"
    /\ opened = <<>>
    /\ unopened \in ZipFiles
    /\ hist = [manifest |-> ZeroManifest, find |-> <<>>, between |-> FALSE]

CallLoad ==
    /\ op = "Unloaded"
    /\ \E path \in {EmptyStr, CartridgePath} :
         LET out == Load(path, unopened)
         IN  /\ op' = "Load"
             /\ arg' = path
             /\ ret' = <<>>
             /\ err' = out.err
             /\ opened' = out.opened
             /\ reader' = out.reader
             /\ manifest' = out.manifest
             /\ unopened' = <<>>
             /\ hist' = [manifest |-> out.manifest, find |-> <<>>, between |-> FALSE]

\* the caller keeps the result of a call of Find
Remember ==
    /\ op = "Find"
    /\ hist.find = <<>>
    /\ hist' = [hist EXCEPT !.find = <<[id |-> arg, ret |-> ret, err |-> err]>>]
    /\ UNCHANGED <<manifest, reader, op, arg, ret, err, opened, unopened>>

\* a session starts with a zip file to load or with a loaded one-resource cartridge
InitSession == InitLoad \/ (InitOneResource /\ JustLoaded)

NextSession == CallLoad \/ Remember \/ Next

SpecSession == InitSession /\ [][NextSession]_vars

(***************************************************************************)
(* Properties.                                                             *)
(***************************************************************************)
Catalog == manifest.Resource

\* some catalog resource has exactly this identifier
InCatalog(id) == \E i \in 1..Len(Catalog) : Catalog[i].Identifier = id

\* the first catalog resource with this identifier
FirstWith(id) ==
    Catalog[CHOOSE i \in 1..Len(Catalog) :
                /\ Catalog[i].Identifier = id
                /\ \A j \in 1..(i - 1) : Catalog[j].Identifier # id]

Raw(r) == [type |-> "types.Resource", value |-> r]

FamilyPrefixes == {TopicPrefix, WebLinkPrefix, AssignmentPrefix, QTIPrefix, LTIPrefix}

\* the tag belongs to one of the five decoded families (family prefix, version digit)
InDecodedFamily(tag) == \E prefix \in FamilyPrefixes : MatchPattern(prefix, tag)

\* C1: Find(id) returns the "could not find resource" error if and only if no
\* catalog resource has an identifier equal to id.
C1_FindNotFoundIffAbsent ==
    op = "Find" => ((err = "ResourceNotFound") <=> ~InCatalog(arg))

\* Find reports an absent identifier although a catalog identifier contains it
C1_Witness ==
    /\ op = "Find"
    /\ err = "ResourceNotFound"
    /\ \E i \in 1..Len(Catalog) : StringsContains(Catalog[i].Identifier, arg)

\* Find resolves an identifier that is present
C1_WitnessPresent ==
    /\ op = "Find"
    /\ InCatalog(arg)
    /\ Len(Catalog) = 2
    /\ Catalog[1].Identifier # arg

\* every path the resource names is an entry of the archive
AllPathsHeld(r) ==
    /\ r.Href # "" => r.Href \in DOMAIN reader
    /\ \A k \in 1..Len(r.File) : r.File[k].Href \in DOMAIN reader

\* C2: for a resource with a backing path (held by the archive) whose tag is
\* webcontent, associatedcontent or outside the five decoded families, Find
\* succeeds and returns the raw Resource: an unrecognised tag never makes
\* Find fail.
C2_UntypedResolvesRaw ==
    (/\ op = "Find"
     /\ InCatalog(arg)
     /\ FirstWith(arg).Href # "" \/ FirstWith(arg).File # <<>>
     /\ AllPathsHeld(FirstWith(arg))
     /\ ~InDecodedFamily(FirstWith(arg).Type))
    => (err = "nil" /\ ret = Raw(FirstWith(arg)))

\* C3: the path Find opens for a resource with file entries is its href when
\* that is non-empty and otherwise the path of its first file entry.
C3_BackingPathIsFirstFile ==
    (/\ op = "Find"
     /\ InCatalog(arg)
     /\ Len(FirstWith(arg).File) >= 1)
    => opened = <<IF FirstWith(arg).Href # "" THEN FirstWith(arg).Href
                  ELSE FirstWith(arg).File[1].Href>>

\* C4: for a resource with an empty href and no file entries, Find succeeds
\* and returns the raw Resource unchanged, whatever its type tag, and opens no
\* archive entry.
C4_FilelessResolvesRaw ==
    (/\ op = "Find"
     /\ InCatalog(arg)
     /\ FirstWith(arg).Href = ""
     /\ FirstWith(arg).File = <<>>)
    => (err = "nil" /\ ret = Raw(FirstWith(arg)) /\ opened = <<>>)

\* a file-less resource of an unrecognised type has been resolved
C4_Witness ==
    /\ op = "Find"
    /\ InCatalog(arg)
    /\ FirstWith(arg).Href = ""
    /\ FirstWith(arg).File = <<>>
    /\ FirstWith(arg).Type = UnknownTag

\* every FullItem of a forest of FullItems, at any depth
RECURSIVE AllFullItems(_)
AllFullItems(fulls) ==
    IF fulls = <<>> THEN <<>>
    ELSE <<Head(fulls)>> \o AllFullItems(Head(fulls).Children) \o AllFullItems(Tail(fulls))

\* the catalog resources at the indexes in keep, in catalog order
RECURSIVE CatalogAt(_, _)
CatalogAt(keep, from) ==
    IF from > Len(Catalog) THEN <<>>
    ELSE (IF from \in keep THEN <<Catalog[from]>> ELSE <<>>) \o CatalogAt(keep, from + 1)

\* C5 as stated: the Resources of every FullItem are the catalog resources
\* whose identifier is a substring of the item's identifier_ref.
C5_AttachedIdentifierWithinRef ==
    op = "Items" =>
        \A k \in 1..Len(AllFullItems(ret)) :
            LET f == AllFullItems(ret)[k]
                within == {i \in 1..Len(Catalog) :
                              /\ f.Item.Identifierref # EmptyStr
                              /\ StringsContains(f.Item.Identifierref, Catalog[i].Identifier)}
            IN  f.Resources = CatalogAt(within, 1)

\* C5 amended: the Resources of every FullItem are the catalog resources
\* whose identifier contains the item's identifier_ref as a substring, in
\* catalog order, and none when identifier_ref is empty.
C5_AttachedIdentifierContainsRef ==
    op = "Items" =>
        \A k \in 1..Len(AllFullItems(ret)) :
            LET f == AllFullItems(ret)[k]
                holding == {i \in 1..Len(Catalog) :
                               /\ f.Item.Identifierref # EmptyStr
                               /\ StringsContains(Catalog[i].Identifier, f.Item.Identifierref)}
            IN  f.Resources = CatalogAt(holding, 1)

\* a nested item whose reference is a proper substring of a resource identifier
\* has that resource attached, next to an item with no reference
C5_Witness ==
    /\ op = "Items"
    /\ \E k \in 1..Len(AllFullItems(ret)) :
          LET f == AllFullItems(ret)[k]
          IN  /\ Len(f.Item.Identifier) >= 2
              /\ f.Item.Identifierref = IdA
              /\ Len(f.Resources) = 2
              /\ f.Resources[1].Identifier = IdAB
    /\ \E k \in 1..Len(AllFullItems(ret)) :
          /\ AllFullItems(ret)[k].Item.Identifierref = EmptyStr
          /\ AllFullItems(ret)[k].Resources = <<>>

\* the FullItems correspond one-to-one, in order, to the items, at every depth
RECURSIVE Mirrors(_, _)
Mirrors(fulls, items) ==
    /\ Len(fulls) = Len(items)
    /\ \A k \in 1..Len(items) :
          /\ fulls[k].Item = items[k]
          /\ Mirrors(fulls[k].Children, items[k].Item)

\* C6: Items() returns no error and mirrors the item tree below the root
\* organization item, the root itself left out.
C6_ItemsMirrorTree ==
    op = "Items" => (err = "nil" /\ Mirrors(ret, manifest.Item.Item))

\* two top-level items, the first a reference-less folder with a child, have
\* been listed
C6_Witness ==
    /\ op = "Items"
    /\ Len(ret) = 2
    /\ ret[1].Item.Identifierref = EmptyStr
    /\ Len(ret[1].Children) = 1
    /\ ret[1].Children[1].Item = manifest.Item.Item[1].Item[1]

DistinctIdentifiers ==
    \A i, j \in 1..Len(Catalog) : Catalog[i].Identifier = Catalog[j].Identifier => i = j

\* C7: when Resources() returns without error on a catalog of pairwise
\* distinct identifiers, it has one FullResource per catalog resource, in
\* catalog order, each holding what Find returns for that identifier.
C7_OneFullResourcePerResource ==
    (op = "Resources" /\ err = "nil" /\ DistinctIdentifiers) =>
        /\ Len(ret) = Len(Catalog)
        /\ \A k \in 1..Len(Catalog) :
              ret[k].Resource = Find(manifest, reader, Catalog[k].Identifier).ret

\* two resources of distinct identifiers, one decoded and one raw, are listed
C7_Witness ==
    /\ op = "Resources"
    /\ err = "nil"
    /\ DistinctIdentifiers
    /\ Len(ret) = 2
    /\ ret[1].Resource.type = "types.WebLink"
    /\ ret[2].Resource.type = "types.Resource"

\* the items below the root, in document order
RECURSIVE DocumentOrder(_)
DocumentOrder(items) ==
    IF items = <<>> THEN <<>>
    ELSE <<Head(items)>> \o DocumentOrder(Head(items).Item) \o DocumentOrder(Tail(items))

\* the first item in document order that refers to id, or the empty Item
FirstReferring(id) ==
    LET order == DocumentOrder(manifest.Item.Item)
        refs == {k \in 1..Len(order) : order[k].Identifierref = id}
    IN  IF refs = {} THEN ZeroItem
        ELSE order[CHOOSE k \in refs : \A j \in refs : k <= j]

\* C8: Resources() pairs each resource with the first item in document order,
\* among the children of the root and their descendants, that refers to it,
\* and with the empty Item only when none does.
C8_PairedWithFirstReferringItem ==
    (op = "Resources" /\ err = "nil") =>
        \A k \in 1..Len(ret) : ret[k].Item = FirstReferring(Catalog[k].Identifier)

\* the number of file entries of the resources whose tag matches the family
\* pattern and whose files are all entries of the archive
RECURSIVE HeldFamilyEntries(_, _)
HeldFamilyEntries(rs, prefix) ==
    IF rs = <<>> THEN 0
    ELSE (IF MatchPattern(prefix, Head(rs).Type) /\ AllPathsHeld(Head(rs))
          THEN Len(Head(rs).File) ELSE 0) + HeldFamilyEntries(Tail(rs), prefix)

\* C9: a resource that cannot be resolved or opened does not abort a listing:
\* Resources() still returns an entry for every resource Find resolves, and
\* Weblinks() the entries of every weblink resource whose files the archive
\* holds.
C9_FailureDoesNotAbortListing ==
    /\ op = "Resources" =>
          \A k \in 1..Len(Catalog) :
              Find(manifest, reader, Catalog[k].Identifier).err = "nil" =>
                  \E j \in 1..Len(ret) :
                      ret[j].Resource = Find(manifest, reader, Catalog[k].Identifier).ret
    /\ op = "Weblinks" => Len(ret) >= HeldFamilyEntries(Catalog, WebLinkPrefix)

\* the root element of the family a lister lists
ListerRoot(name) ==
    CASE name = "Topics" -> "topic"
      [] name = "Weblinks" -> "webLink"
      [] name = "Assignments" -> "assignment"
      [] name = "QTIs" -> "questestinterop"
      [] name = "LTIs" -> "cartridge_basiclti_link"

\* C10: every element a per-family lister returns has the root element name
\* of its family.
C10_ListedElementsHaveFamilyRoot ==
    op \in {"Topics", "Weblinks", "Assignments", "QTIs", "LTIs"} =>
        \A k \in 1..Len(ret) : ret[k].XMLName = ListerRoot(op)

\* the struct type of the family a prefix names
FamilyType(prefix) ==
    CASE prefix = TopicPrefix -> "types.Topic"
      [] prefix = WebLinkPrefix -> "types.WebLink"
      [] prefix = AssignmentPrefix -> "types.Assignment"
      [] prefix = QTIPrefix -> "types.Questestinterop"
      [] prefix = LTIPrefix -> "types.CartridgeBasicltiLink"

\* C11: classification is by pattern and the same in Find as in the listers:
\* for every resource whose tag is a family prefix followed by any version
\* digit (and whose files the archive holds), Find resolves the resource into
\* that family's typed variant.
C11_FindClassifiesByPattern ==
    (/\ op = "Find"
     /\ InCatalog(arg)
     /\ FirstWith(arg).Href # "" \/ FirstWith(arg).File # <<>>
     /\ AllPathsHeld(FirstWith(arg)))
    => \A prefix \in FamilyPrefixes : \A d \in Digits :
          FirstWith(arg).Type = <<prefix, d>> =>
              (err = "nil" /\ ret.type = FamilyType(prefix))

\* C12: when the tag classifies into a typed family and the file Find read
\* does not have that family's root element, Find returns an error (the
\* decode error), never a typed variant with a nil error.
C12_DecodeFailureIsAnError ==
    (/\ op = "Find"
     /\ InCatalog(arg)
     /\ Len(opened) = 1
     /\ opened[1] \in DOMAIN reader
     /\ \E prefix \in FamilyPrefixes :
           /\ MatchPattern(prefix, FirstWith(arg).Type)
           /\ reader[opened[1]].root # RootOf(FamilyType(prefix)))
    => err # "nil"


\* C13: FindFile(id) always ends by returning a stream or an error value: the
\* stream of the first listed file of the resource whose identifier equals
\* id, an error when no resource has that identifier or the file is absent
\* from the archive, and an error, not a crash, when the resource has no
\* file entries.
C13_FindFileReturnsStreamOrError ==
    op = "FindFile" =>
        /\ err # "panic"
        /\ IF InCatalog(arg)
           THEN /\ FirstWith(arg).File = <<>> => err # "nil"
                /\ FirstWith(arg).File # <<>> =>
                      IF FirstWith(arg).File[1].Href \in DOMAIN reader
                      THEN /\ err = "nil"
                           /\ ret = [type |-> "fs.File",
                                     value |-> reader[FirstWith(arg).File[1].Href]]
                      ELSE err # "nil"
           ELSE err # "nil"

\* the bytes parse as XML: they have a root element
WellFormed(bytes) == bytes.root # ""

\* C14: Load succeeds only when the archive has an entry whose name contains
\* imsmanifest.xml and that entry's content is well-formed XML: it returns an
\* error when no entry name contains the manifest file name, and an error
\* when the chosen entry's content does not parse as XML.
C14_LoadFailsOnMissingOrMalformedManifest ==
    (op = "Load" /\ arg = CartridgePath) =>
        /\ (\A n \in DOMAIN reader : ~StringsContains(NameTokens(n), ManifestName))
              => err # "nil"
        /\ err = "nil" =>
              /\ Len(opened) = 1
              /\ opened[1] \in DOMAIN reader
              /\ StringsContains(NameTokens(opened[1]), ManifestName)
              /\ WellFormed(reader[opened[1]])

ListerPrefix(name) ==
    CASE name = "Topics" -> TopicPrefix
      [] name = "Weblinks" -> WebLinkPrefix
      [] name = "Assignments" -> AssignmentPrefix
      [] name = "QTIs" -> QTIPrefix
      [] name = "LTIs" -> LTIPrefix

\* the file entries under the resources of a family, catalog order then file
\* order
RECURSIVE FileEntriesUnder(_, _)
FileEntriesUnder(rs, prefix) ==
    IF rs = <<>> THEN <<>>
    ELSE LET r == rs[Len(rs)]
         IN  FileEntriesUnder(SubSeq(rs, 1, Len(rs) - 1), prefix)
             \o (IF MatchPattern(prefix, r.Type)
                 THEN [k \in 1..Len(r.File) |-> r.File[k].Href] ELSE <<>>)

\* C16: a per-family lister works per file entry: it opens every file entry
\* of every resource whose type tag matches the family pattern, in catalog
\* order then file order, ignoring the href of the resource; Topics, Weblinks
\* and LTIs return exactly as many entries as there are such file entries,
\* Assignments and QTIs as many as pass the root-element check.
C16_ListersWorkPerFileEntry ==
    op \in {"Topics", "Weblinks", "Assignments", "QTIs", "LTIs"} =>
        LET entries == FileEntriesUnder(Catalog, ListerPrefix(op))
            passing == {k \in 1..Len(entries) :
                          /\ entries[k] \in DOMAIN reader
                          /\ reader[entries[k]].root = ListerRoot(op)}
        IN  /\ opened = entries
            /\ op \in {"Topics", "Weblinks", "LTIs"} => Len(ret) = Len(entries)
            /\ op \in {"Assignments", "QTIs"} => Len(ret) = Cardinality(passing)
====
